---- MODULE Spec2Model ----
(***************************************************************************)
(* The bladeRF transmit sink (lib/bladerf/bladerf_sink_c.cc): construction *)
(* time configuration of the buffer pool, the Producer path work(), the    *)
(* Consumer path get_next_buffer() called back by the hardware transfer    *)
(* loop that write_task() hosts, and the destructor (the spec's stop()).   *)
(*                                                                         *)
(* Threads: the caller of work(), the streaming thread (write_task, inside *)
(* bladerf_stream, inside the callback), and the thread that destroys the  *)
(* object.  A critical section of _buf_status_lock is one action: inside   *)
(* it the only access to state the lock does not protect is one read of    *)
(* the running flag.  A condition variable is the set of threads waiting   *)
(* on it; a waiter that has been removed from the set has still to take    *)
(* the lock again, which is the Wake action of its thread.                 *)
(***************************************************************************)
EXTENDS Integers, Sequences, FiniteSets, TLC

VARIABLES
  obj,                \* "new" before the constructor ran, "live" after
  req_buffers,        \* dict["buffers"], Unset when the key is absent
  req_buflen,         \* dict["buflen"]
  req_transfers,      \* dict["transfers"]
  num_buffers,        \* _num_buffers
  samples_per_buffer, \* _samples_per_buffer
  transfers,          \* transfers, as passed to bladerf_init_stream
  filled,             \* _filled[]
  buf_index,          \* _buf_index
  next_to_tx,         \* _next_to_tx
  next_value,         \* _next_value: slot and int16 offset in it
  samples_left,       \* _samples_left
  running,            \* the flag behind set_running()/is_running()
  pc_p,               \* where the caller of work() is
  p_running,          \* work(): local running
  num_samples,        \* work(): local num_samples
  noutput_items,      \* work(): argument
  work_ret,           \* value of the last return of work()
  work_calls,         \* number of calls of work() so far
  fill_order,         \* slots in the order work() marked them filled
  samp_avail,         \* threads waiting on _samp_avail
  buffer_emptied,     \* threads waiting on _buffer_emptied
  pc_c,               \* where the streaming thread is
  hw_primed,          \* initial callbacks (samples = NULL) made so far
  hw_inflight,        \* buffers the transfer loop holds, oldest first
  status,             \* write_task(): what bladerf_stream returned
  tx_order,           \* slots in the order get_next_buffer() returned them
  pc_d,               \* where the destructor is
  dtor_saw,           \* what the destructor found when it was invoked
  stream_released,    \* calls of bladerf_deinit_stream(_stream)
  filled_released,    \* executions of delete[] _filled
  init_ret,           \* constructor: what bladerf_init_stream returned
  pool_fault,         \* _buffers[0] was read with no pool allocated
  dev_freq,           \* the device's TX frequency
  freq_arg,           \* set_center_freq(): argument of the last call
  freq_out,           \* set_center_freq(): how the last call ended
  freq_calls,         \* calls of set_center_freq() so far
  freq_writes,        \* calls of bladerf_set_frequency() so far
  buffers,            \* _buffers[i][]: which input samples slot i holds
  fed,                \* input samples work() has converted so far
  tx_data             \* what each buffer held when it was handed over

cfg_vars  == <<req_buffers, req_buflen, req_transfers, num_buffers,
               samples_per_buffer, transfers>>
pool_vars == <<filled, buf_index, next_to_tx, next_value, samples_left>>
work_vars == <<pc_p, p_running, num_samples, noutput_items, work_ret,
               work_calls, fill_order>>
cv_vars   == <<samp_avail, buffer_emptied>>
hw_vars   == <<pc_c, hw_primed, hw_inflight, status, tx_order>>
dtor_vars == <<pc_d, dtor_saw, stream_released, filled_released>>
init_vars == <<init_ret, pool_fault>>
freq_vars == <<dev_freq, freq_arg, freq_out, freq_calls, freq_writes>>
dev_vars  == <<init_vars, freq_vars>>
data_vars == <<buffers, fed, tx_data>>
vars == <<obj, cfg_vars, pool_vars, running, work_vars, cv_vars, hw_vars,
          dtor_vars, dev_vars, data_vars>>

----------------------------------------------------------------------------
(* Program constants *)

NUM_BUFFERS == 32
NUM_SAMPLES_PER_BUFFER == 4096
\* 2 * sizeof(int16_t): bytes of one SC16_Q12 sample
BytesPerSample == 4
\* granularity and minimum of the samples of one buffer
SampleQuantum == 1024
\* a key that dict.count() does not find
Unset == -1
\* the samples argument of the first callbacks
NULL == -1
\* a negative status of bladerf_stream
StreamError == -1
\* a nonzero return of bladerf_init_stream
InitError == -1
\* the valid frequency range, in MHz
FreqStart == 300
FreqStop == 3800

(* Bounds of the model *)

\* largest "buffers" request of the streaming specifications
MaxPool == 4
\* calls of work() in one behaviour
MaxCalls == 2
\* largest "buffers" and "transfers" requests of the configuration
\* specification
MaxReqBuffers == 6
MaxReqTransfers == 5
\* calls of set_center_freq() in one behaviour
MaxFreqCalls == 2

\* "buflen" requests of the configuration specification, in bytes
CfgBuflens == {Unset, 0, 4, 4092, 4096, 4099, 4100, 6144, 8192, 8195, 12288}
\* requests of the streaming specifications: 1024 samples a buffer
StreamBuflens == {4096}
StreamTransfers == {Unset, 1}
\* frequencies asked of set_center_freq(), and those the device starts at
FreqRequests == {0, FreqStart - 1, FreqStart, 2400, FreqStop, FreqStop + 1}
FreqAtOpen == {FreqStart, 2400}

----------------------------------------------------------------------------
(* Construction-time configuration, lines 162-199.  The values are size_t *)
(* and transfers is an unsigned int: on the requests modelled here, all   *)
(* far below 2^32, the narrowing of lines 175 and 197 changes nothing.    *)

Requested(v) == IF v = Unset THEN 0 ELSE v

\* as NumBuffersCfg, a request of 1 accepted
NumBuffersCfg_AllowOne(req) ==
  IF Requested(req) < 1 THEN NUM_BUFFERS ELSE Requested(req)

NumBuffersCfg(req) ==
  IF Requested(req) <= 1 THEN NUM_BUFFERS ELSE Requested(req)

\* as SamplesPerBufferCfg, the multiple-of-1024 test left out
SamplesPerBufferCfg_NoMultiple(req) ==
  IF Requested(req) = 0 THEN NUM_SAMPLES_PER_BUFFER
  ELSE LET s == Requested(req) \div BytesPerSample
       IN IF s < SampleQuantum THEN NUM_SAMPLES_PER_BUFFER ELSE s

SamplesPerBufferCfg(req) ==
  IF Requested(req) = 0 THEN NUM_SAMPLES_PER_BUFFER
  ELSE LET s == Requested(req) \div BytesPerSample
       IN IF s < SampleQuantum \/ s % SampleQuantum # 0
          THEN NUM_SAMPLES_PER_BUFFER
          ELSE s

\* as TransfersCfg, the request compared with the pool size, not its half
TransfersCfg_NoHalf(req, nb) ==
  IF Requested(req) = 0 \/ Requested(req) > nb
  THEN nb \div 2
  ELSE Requested(req)

TransfersCfg(req, nb) ==
  IF Requested(req) = 0 \/ Requested(req) > nb \div 2
  THEN nb \div 2
  ELSE Requested(req)

----------------------------------------------------------------------------
(* Helpers of the pipeline *)

NextIndex(i, n) == (i + 1) % n

\* _buffers[i]: a buffer is known by its slot
BufferAt(i) == i

\* as buffer2index, the slot after the matching one
buffer2index_Next(current, n) ==
  NextIndex(CHOOSE i \in 0 .. n - 1 : BufferAt(i) = current, n)

buffer2index(current, n) == CHOOSE i \in 0 .. n - 1 : BufferAt(i) = current

\* as NotifyOne, nobody woken
NotifyOne_Lost(waiters) == waiters

NotifyOne(waiters) ==
  IF waiters = {} THEN {} ELSE waiters \ {CHOOSE t \in waiters : TRUE}

NotifyAll(waiters) == {}

\* as WorkLoopCond, the running flag not tested
WorkLoopCond_NoRun(run, n) == n > 0

\* line 341
WorkLoopCond(run, n) == run /\ n > 0

\* as ProducerMustWait, the test of the running flag inverted
ProducerMustWait_NotRunning(f, idx, run) == f[idx] /\ ~run

\* line 373
ProducerMustWait(f, idx, run) == f[idx] /\ run

\* as RunningAfterWake, the flag not read again
RunningAfterWake_Stale(cur, old) == old

\* line 375
RunningAfterWake(cur, old) == cur

\* as WorkReturn, the test of running inverted
WorkReturn_Inverted(run, n) == IF run THEN 0 ELSE n

\* line 381
WorkReturn(run, n) == IF run THEN n ELSE 0

\* as ConsumerMustWait, the test of the filled flag inverted
ConsumerMustWait_Inverted(run, f, idx) == run /\ f[idx]

\* line 301
ConsumerMustWait(run, f, idx) == run /\ ~f[idx]

\* line 296
MarkEmptied(f, idx) == [f EXCEPT ![idx] = FALSE]

Min(a, b) == IF a < b THEN a ELSE b

\* What a buffer holds: len input samples from number first on, two int16
\* values each, from the start of the buffer.  Unwritten: no such run.
Unwritten == [first |-> Unset, len |-> 0]

\* Lines 346-355, n times: input samples pos .. pos + n - 1 are written at
\* sample offset off of a buffer that held `held`.  The samples are known
\* by their number in the input; the scaling of line 346 is left out.
WriteSamples(held, off, pos, n) ==
  IF n = 0 THEN held
  ELSE IF off = 0 THEN [first |-> pos, len |-> n]
  ELSE IF held.len = off /\ held.first + off = pos
       THEN [first |-> held.first, len |-> off + n]
       ELSE Unwritten

\* noutput_items of a call of work()
WorkCounts == {samples_per_buffer \div 2, samples_per_buffer,
               num_buffers * samples_per_buffer}

----------------------------------------------------------------------------
(* Initial states *)

InitRest ==
  /\ obj = "new"
  /\ num_buffers = 0 /\ samples_per_buffer = 0 /\ transfers = 0
  /\ filled = <<>>
  /\ buf_index = 0 /\ next_to_tx = 0
  /\ next_value = [slot |-> 0, off |-> 0]
  /\ samples_left = 0
  /\ running = FALSE
  /\ pc_p = "idle" /\ p_running = FALSE /\ num_samples = 0
  /\ noutput_items = 0 /\ work_ret = 0 /\ work_calls = 0
  /\ fill_order = <<>>
  /\ samp_avail = {} /\ buffer_emptied = {}
  /\ pc_c = "none" /\ hw_primed = 0 /\ hw_inflight = <<>>
  /\ status = 0 /\ tx_order = <<>>
  /\ pc_d = "idle"
  /\ dtor_saw = [thread_done |-> FALSE, work_waits |-> FALSE]
  /\ stream_released = 0 /\ filled_released = 0
  /\ init_ret = 0 /\ pool_fault = FALSE
  /\ freq_arg = 0 /\ freq_out = [kind |-> "none", value |-> 0]
  /\ freq_calls = 0 /\ freq_writes = 0
  /\ buffers = <<>> /\ fed = 0 /\ tx_data = <<>>

Init ==
  /\ req_buffers \in 2 .. MaxPool
  /\ req_buflen \in StreamBuflens
  /\ req_transfers \in StreamTransfers
  /\ dev_freq = 2400
  /\ InitRest

InitCfg ==
  /\ req_buffers \in {Unset} \cup (0 .. MaxReqBuffers)
  /\ req_buflen \in CfgBuflens
  /\ req_transfers \in {Unset} \cup (0 .. MaxReqTransfers)
  /\ dev_freq = 2400
  /\ InitRest

InitFreq ==
  /\ req_buffers \in 2 .. MaxPool
  /\ req_buflen \in StreamBuflens
  /\ req_transfers \in StreamTransfers
  /\ dev_freq \in FreqAtOpen
  /\ InitRest

----------------------------------------------------------------------------
(* bladerf_sink_c::bladerf_sink_c, lines 162-228 *)

\* as Construct, _next_to_tx starting at slot 1
Construct_TxFromOne ==
  /\ obj = "new"
  /\ obj' = "live"
  /\ init_ret' = 0
  /\ UNCHANGED <<pool_fault, freq_vars>>
  /\ num_buffers' = NumBuffersCfg(req_buffers)
  /\ samples_per_buffer' = SamplesPerBufferCfg(req_buflen)
  /\ transfers' = TransfersCfg(req_transfers, num_buffers')
  /\ buf_index' = 0 /\ next_to_tx' = 1
  /\ next_value' = [slot |-> 0, off |-> 0]
  /\ samples_left' = samples_per_buffer'
  /\ filled' = [i \in 0 .. num_buffers' - 1 |-> FALSE]
  /\ buffers' = [i \in 0 .. num_buffers' - 1 |-> Unwritten]
  /\ running' = TRUE
  /\ pc_c' = "stream"
  /\ UNCHANGED <<req_buffers, req_buflen, req_transfers, work_vars, cv_vars,
                 hw_primed, hw_inflight, status, tx_order, dtor_vars,
                 fed, tx_data>>

\* bladerf_init_stream returns 0 and has allocated the buffers.
Construct ==
  /\ obj = "new"
  /\ obj' = "live"
  /\ init_ret' = 0
  /\ UNCHANGED <<pool_fault, freq_vars>>
  /\ num_buffers' = NumBuffersCfg(req_buffers)
  /\ samples_per_buffer' = SamplesPerBufferCfg(req_buflen)
  /\ transfers' = TransfersCfg(req_transfers, num_buffers')
  /\ buf_index' = 0 /\ next_to_tx' = 0
  /\ next_value' = [slot |-> 0, off |-> 0]
  /\ samples_left' = samples_per_buffer'
  /\ filled' = [i \in 0 .. num_buffers' - 1 |-> FALSE]
  /\ buffers' = [i \in 0 .. num_buffers' - 1 |-> Unwritten]
  /\ running' = TRUE
  /\ pc_c' = "stream"
  /\ UNCHANGED <<req_buffers, req_buflen, req_transfers, work_vars, cv_vars,
                 hw_primed, hw_inflight, status, tx_order, dtor_vars,
                 fed, tx_data>>

\* bladerf_init_stream fails: the failure is printed (line 206), _buffers
\* was never set, and line 210 reads _buffers[0] all the same.  What that
\* read does is not defined: the constructor faults, or it goes on with an
\* arbitrary _next_value, allocates _filled and starts the thread on a
\* stream that does not exist.
ConstructInitFails ==
  /\ obj = "new"
  /\ init_ret' = InitError
  /\ pool_fault' = TRUE
  /\ num_buffers' = NumBuffersCfg(req_buffers)
  /\ samples_per_buffer' = SamplesPerBufferCfg(req_buflen)
  /\ transfers' = TransfersCfg(req_transfers, num_buffers')
  /\ buf_index' = 0 /\ next_to_tx' = 0
  /\ \/ /\ obj' = "crashed"
        /\ UNCHANGED <<next_value, samples_left, filled, running, pc_c>>
     \/ /\ obj' = "degraded"
        /\ next_value' = [slot |-> NULL, off |-> 0]
        /\ samples_left' = samples_per_buffer'
        /\ filled' = [i \in 0 .. num_buffers' - 1 |-> FALSE]
        /\ running' = TRUE
        /\ pc_c' = "stream"
  /\ UNCHANGED <<req_buffers, req_buflen, req_transfers, work_vars, cv_vars,
                 hw_primed, hw_inflight, status, tx_order, dtor_vars,
                 freq_vars, data_vars>>

----------------------------------------------------------------------------
(* bladerf_sink_c::set_center_freq and get_center_freq, lines 448-482.    *)
(* Frequencies are whole MHz, so the conversion (uint32_t)freq of line    *)
(* 456 changes none of them.                                               *)

\* as FreqOutOfRange, the upper end not tested
FreqOutOfRange_NoStop(freq) == freq < FreqStart

\* lines 452-453
FreqOutOfRange(freq) == freq < FreqStart \/ freq > FreqStop

\* get_center_freq(), lines 470-482: the frequency read from the device,
\* or the exception when bladerf_get_frequency fails.
GetCenterFreq(get_ok, f) ==
  IF get_ok THEN [kind |-> "value", value |-> f]
  ELSE [kind |-> "get_failed", value |-> 0]

\* set_ok, get_ok: whether bladerf_set_frequency and bladerf_get_frequency
\* succeed.
SetCenterFreq(freq, set_ok, get_ok) ==
  /\ obj = "live" /\ pc_d = "idle"
  /\ freq_calls < MaxFreqCalls
  /\ freq_calls' = freq_calls + 1
  /\ freq_arg' = freq
  /\ IF FreqOutOfRange(freq)
     THEN /\ UNCHANGED <<dev_freq, freq_writes>>
          /\ freq_out' = GetCenterFreq(get_ok, dev_freq)
     ELSE /\ freq_writes' = freq_writes + 1
          /\ IF set_ok
             THEN /\ dev_freq' = freq
                  /\ freq_out' = GetCenterFreq(get_ok, freq)
             ELSE /\ UNCHANGED dev_freq
                  /\ freq_out' = [kind |-> "set_failed", value |-> 0]
  /\ UNCHANGED <<obj, cfg_vars, init_vars, data_vars, pool_vars, running,
                 work_vars,
                 cv_vars, hw_vars, dtor_vars>>

----------------------------------------------------------------------------
(* bladerf_sink_c::work, lines 329-382 *)

\* The test of the outer loop (line 341) and, when it fails, the return
\* (line 381), with the local values run and ns.
WorkLoopOrReturn(run, ns) ==
  IF WorkLoopCond(run, ns)
  THEN /\ pc_p' = "copy"
       /\ UNCHANGED work_ret
  ELSE /\ pc_p' = "idle"
       /\ work_ret' = WorkReturn(run, noutput_items')

WorkEnter(n) ==
  /\ obj = "live" /\ pc_d = "idle"
  /\ pc_p = "idle"
  /\ work_calls < MaxCalls
  /\ work_calls' = work_calls + 1
  /\ noutput_items' = n
  /\ num_samples' = n
  /\ p_running' = running
  /\ WorkLoopOrReturn(p_running', n)
  /\ UNCHANGED <<obj, cfg_vars, dev_vars, data_vars,
                 pool_vars, running, fill_order, cv_vars,
                 hw_vars, dtor_vars>>

\* The inner loop, lines 343-356: it runs outside the lock and touches the
\* caller's own cursor and the slot under it only.
WorkCopy ==
  /\ pc_p = "copy"
  /\ LET to_copy == Min(samples_left, num_samples)
     IN /\ num_samples' = num_samples - to_copy
        /\ samples_left' = samples_left - to_copy
        /\ next_value' = [next_value EXCEPT !.off = @ + 2 * to_copy]
        /\ buffers' = [buffers EXCEPT ![next_value.slot] =
                         WriteSamples(@, next_value.off \div 2, fed,
                                      to_copy)]
        /\ fed' = fed + to_copy
  /\ UNCHANGED <<noutput_items, p_running, work_calls, fill_order,
                 tx_data>>
  /\ IF samples_left' = 0
     THEN pc_p' = "fill" /\ UNCHANGED work_ret
     ELSE WorkLoopOrReturn(p_running, num_samples')
  /\ UNCHANGED <<obj, cfg_vars, dev_vars,
                 filled, buf_index, next_to_tx, running,
                 cv_vars, hw_vars, dtor_vars>>

\* The critical section of lines 360-377 up to the first wait or its end.
WorkFill ==
  /\ pc_p = "fill"
  /\ filled' = [filled EXCEPT ![buf_index] = TRUE]
  /\ fill_order' = Append(fill_order, buf_index)
  /\ buf_index' = NextIndex(buf_index, num_buffers)
  /\ next_value' = [slot |-> buf_index', off |-> 0]
  /\ samples_left' = samples_per_buffer
  /\ samp_avail' = NotifyOne(samp_avail)
  /\ UNCHANGED <<noutput_items, num_samples, p_running, work_calls>>
  /\ IF ProducerMustWait(filled', buf_index', p_running)
     THEN /\ buffer_emptied' = buffer_emptied \cup {"work"}
          /\ pc_p' = "wait"
          /\ UNCHANGED work_ret
     ELSE /\ UNCHANGED buffer_emptied
          /\ WorkLoopOrReturn(p_running, num_samples)
  /\ UNCHANGED <<obj, cfg_vars, dev_vars, data_vars,
                 next_to_tx, running, hw_vars, dtor_vars>>

\* _buffer_emptied.wait(lock) returns: lines 374-376 and the loop test
\* again.
WorkWake ==
  /\ pc_p = "wait"
  /\ "work" \notin buffer_emptied
  /\ p_running' = RunningAfterWake(running, p_running)
  /\ UNCHANGED <<noutput_items, num_samples, work_calls, fill_order>>
  /\ IF ProducerMustWait(filled, buf_index, p_running')
     THEN /\ buffer_emptied' = buffer_emptied \cup {"work"}
          /\ pc_p' = "wait"
          /\ UNCHANGED work_ret
     ELSE /\ UNCHANGED buffer_emptied
          /\ WorkLoopOrReturn(p_running', num_samples)
  /\ UNCHANGED <<obj, cfg_vars, dev_vars, data_vars,
                 pool_vars, running, samp_avail, hw_vars,
                 dtor_vars>>

----------------------------------------------------------------------------
(* bladerf_sink_c::get_next_buffer, lines 284-314 *)

\* as CallbackTail, _next_to_tx not advanced
CallbackTail_NoAdvance(f, held) ==
  LET run == running
  IN IF ConsumerMustWait(run, f, next_to_tx)
     THEN /\ samp_avail' = samp_avail \cup {"cb"}
          /\ pc_c' = "cb_wait"
          /\ hw_inflight' = held
          /\ UNCHANGED <<next_to_tx, tx_order, tx_data, status>>
     ELSE IF run
     THEN /\ hw_inflight' = Append(held, BufferAt(next_to_tx))
          /\ tx_order' = Append(tx_order, next_to_tx)
          /\ tx_data' = Append(tx_data, buffers[next_to_tx])
          /\ pc_c' = "stream"
          /\ UNCHANGED <<next_to_tx, samp_avail, status>>
     ELSE /\ hw_inflight' = <<>>
          /\ status' = 0
          /\ pc_c' = "exit"
          /\ UNCHANGED <<samp_avail, next_to_tx, tx_order, tx_data>>

\* Lines 300-310 with the flags f and the transfer loop holding held.
CallbackTail(f, held) ==
  LET run == running
  IN IF ConsumerMustWait(run, f, next_to_tx)
     THEN /\ samp_avail' = samp_avail \cup {"cb"}
          /\ pc_c' = "cb_wait"
          /\ hw_inflight' = held
          /\ UNCHANGED <<next_to_tx, tx_order, tx_data, status>>
     ELSE IF run
     THEN /\ hw_inflight' = Append(held, BufferAt(next_to_tx))
          /\ tx_order' = Append(tx_order, next_to_tx)
          /\ tx_data' = Append(tx_data, buffers[next_to_tx])
          /\ next_to_tx' = NextIndex(next_to_tx, num_buffers)
          /\ pc_c' = "stream"
          /\ UNCHANGED <<samp_avail, status>>
     ELSE \* NULL: the transfer loop shuts down and bladerf_stream returns 0
          /\ hw_inflight' = <<>>
          /\ status' = 0
          /\ pc_c' = "exit"
          /\ UNCHANGED <<samp_avail, next_to_tx, tx_order, tx_data>>

get_next_buffer(samples) ==
  /\ pc_c = "stream"
  /\ IF samples # NULL
     THEN /\ filled' = MarkEmptied(filled,
                                   buffer2index(samples, num_buffers))
          /\ buffer_emptied' = NotifyOne(buffer_emptied)
     ELSE UNCHANGED <<filled, buffer_emptied>>
  /\ CallbackTail(filled', IF samples # NULL THEN Tail(hw_inflight)
                                            ELSE hw_inflight)
  /\ UNCHANGED <<obj, cfg_vars, dev_vars, buffers, fed,
                 buf_index, next_value, samples_left, running,
                 work_vars, dtor_vars>>

\* _samp_avail.wait(lock) returns: the loop test of line 301 again.
CallbackWake ==
  /\ pc_c = "cb_wait"
  /\ "cb" \notin samp_avail
  /\ CallbackTail(filled, hw_inflight)
  /\ UNCHANGED <<obj, cfg_vars, dev_vars, buffers, fed,
                 filled, buf_index, next_value, samples_left,
                 running, work_vars, buffer_emptied, hw_primed, dtor_vars>>

----------------------------------------------------------------------------
(* The transfer loop bladerf_stream(), called at line 321 *)

\* One of the first `transfers` callbacks: no buffer comes back.
HwPrime ==
  /\ hw_primed < transfers
  /\ hw_primed' = hw_primed + 1
  /\ get_next_buffer(NULL)

\* The oldest transfer completes and its buffer comes back through the
\* callback: transfers queued on the one endpoint complete in the order of
\* their submission.
HwComplete ==
  /\ hw_inflight # <<>>
  /\ UNCHANGED hw_primed
  /\ get_next_buffer(Head(hw_inflight))

\* The transfer loop fails: bladerf_stream returns a negative status.
HwError ==
  /\ pc_c = "stream"
  /\ pc_c' = "exit"
  /\ status' = StreamError
  /\ hw_inflight' = <<>>
  /\ UNCHANGED <<obj, cfg_vars, dev_vars, data_vars,
                 pool_vars, running, work_vars, cv_vars,
                 hw_primed, tx_order, dtor_vars>>

\* as WriteTaskExit, the thread releasing the stream itself
WriteTaskExit_Releases ==
  /\ pc_c = "exit"
  /\ running' = FALSE
  /\ pc_c' = "done"
  /\ stream_released' = stream_released + 1
  /\ UNCHANGED <<obj, cfg_vars, dev_vars, data_vars,
                 pool_vars, work_vars, cv_vars, hw_primed,
                 hw_inflight, status, tx_order, pc_d, dtor_saw,
                 filled_released>>

\* bladerf_sink_c::write_task after bladerf_stream returned, lines 323-327
WriteTaskExit ==
  /\ pc_c = "exit"
  /\ running' = FALSE
  /\ pc_c' = "done"
  /\ UNCHANGED <<obj, cfg_vars, dev_vars, data_vars,
                 pool_vars, work_vars, cv_vars, hw_primed,
                 hw_inflight, status, tx_order, dtor_vars>>

----------------------------------------------------------------------------
(* A wait on a condition variable may return without a notification *)

SpuriousWakeup ==
  /\ \/ /\ "work" \in buffer_emptied
        /\ buffer_emptied' = buffer_emptied \ {"work"}
        /\ UNCHANGED samp_avail
     \/ /\ "cb" \in samp_avail
        /\ samp_avail' = samp_avail \ {"cb"}
        /\ UNCHANGED buffer_emptied
  /\ UNCHANGED <<obj, cfg_vars, dev_vars, data_vars,
                 pool_vars, running, work_vars, hw_vars,
                 dtor_vars>>

----------------------------------------------------------------------------
(* bladerf_sink_c::~bladerf_sink_c, lines 234-259.  The destructor waits  *)
(* for the streaming thread only: a call of work() may still be in        *)
(* progress when it starts, and no new call starts after it.  The release  *)
(* is counted; the members keep their last values.                         *)

\* as DtorStart, set_running(true) written for set_running(false)
DtorStart_SetsRunning ==
  /\ obj = "live"
  /\ pc_d = "idle"
  /\ running' = TRUE
  /\ pc_d' = "notify"
  /\ dtor_saw' = [thread_done |-> (pc_c = "done"),
                  work_waits |-> (pc_p = "wait")]
  /\ UNCHANGED <<obj, cfg_vars, dev_vars, data_vars, pool_vars, work_vars,
                 cv_vars,
                 hw_vars, stream_released, filled_released>>

\* line 238
DtorStart ==
  /\ obj = "live"
  /\ pc_d = "idle"
  /\ running' = FALSE
  /\ pc_d' = "notify"
  /\ dtor_saw' = [thread_done |-> (pc_c = "done"),
                  work_waits |-> (pc_p = "wait")]
  /\ UNCHANGED <<obj, cfg_vars, dev_vars, data_vars,
                 pool_vars, work_vars, cv_vars, hw_vars,
                 stream_released, filled_released>>

\* as DtorNotify, _buffer_emptied.notify_all() left out
DtorNotify_OnlySampAvail ==
  /\ pc_d = "notify"
  /\ samp_avail' = NotifyAll(samp_avail)
  /\ pc_d' = "join"
  /\ UNCHANGED <<obj, cfg_vars, dev_vars, data_vars, pool_vars, running,
                 work_vars,
                 buffer_emptied, hw_vars, dtor_saw, stream_released,
                 filled_released>>

\* lines 241-244
DtorNotify ==
  /\ pc_d = "notify"
  /\ samp_avail' = NotifyAll(samp_avail)
  /\ buffer_emptied' = NotifyAll(buffer_emptied)
  /\ pc_d' = "join"
  /\ UNCHANGED <<obj, cfg_vars, dev_vars, data_vars,
                 pool_vars, running, work_vars, hw_vars,
                 dtor_saw, stream_released, filled_released>>

\* as DtorJoin, the thread not waited for
DtorJoin_NoWait ==
  /\ pc_d = "join"
  /\ pc_d' = "release"
  /\ UNCHANGED <<obj, cfg_vars, dev_vars, data_vars, pool_vars, running,
                 work_vars,
                 cv_vars, hw_vars, dtor_saw, stream_released,
                 filled_released>>

\* line 246
DtorJoin ==
  /\ pc_d = "join"
  /\ pc_c = "done"
  /\ pc_d' = "release"
  /\ UNCHANGED <<obj, cfg_vars, dev_vars, data_vars,
                 pool_vars, running, work_vars, cv_vars,
                 hw_vars, dtor_saw, stream_released, filled_released>>

\* lines 248-258
DtorRelease ==
  /\ pc_d = "release"
  /\ stream_released' = stream_released + 1
  /\ filled_released' = filled_released + 1
  /\ pc_d' = "done"
  /\ UNCHANGED <<obj, cfg_vars, dev_vars, data_vars,
                 pool_vars, running, work_vars, cv_vars,
                 hw_vars, dtor_saw>>

----------------------------------------------------------------------------
(* Specifications *)

Next ==
  \/ Construct
  \/ \E n \in WorkCounts : WorkEnter(n)
  \/ WorkCopy
  \/ WorkFill
  \/ WorkWake
  \/ HwPrime
  \/ HwComplete
  \/ CallbackWake
  \/ HwError
  \/ WriteTaskExit
  \/ SpuriousWakeup
  \/ DtorStart
  \/ DtorNotify
  \/ DtorJoin
  \/ DtorRelease

Spec == Init /\ [][Next]_vars

\* Every thread that can take a step takes it; the transfer loop keeps
\* calling back.  Nothing obliges the caller to call work() or to destroy
\* the object, the hardware to fail, or a wait to return unnotified.
Fairness ==
  /\ WF_vars(Construct)
  /\ WF_vars(WorkCopy)
  /\ WF_vars(WorkFill)
  /\ WF_vars(WorkWake)
  /\ WF_vars(HwPrime)
  /\ WF_vars(HwComplete)
  /\ WF_vars(CallbackWake)
  /\ WF_vars(WriteTaskExit)
  /\ WF_vars(DtorNotify)
  /\ WF_vars(DtorJoin)
  /\ WF_vars(DtorRelease)

FairSpec == Init /\ [][Next]_vars /\ Fairness

\* The configuration alone, over a wide range of requests.
NextCfg == Construct

SpecCfg == InitCfg /\ [][NextCfg]_vars

\* The constructor with a stream initialization that may fail.
NextInit ==
  \/ Construct
  \/ ConstructInitFails

SpecInit == InitCfg /\ [][NextInit]_vars

\* The frequency calls on a constructed object.
NextFreq ==
  \/ Construct
  \/ \E freq \in FreqRequests, set_ok \in BOOLEAN, get_ok \in BOOLEAN :
       SetCenterFreq(freq, set_ok, get_ok)

SpecFreq == InitFreq /\ [][NextFreq]_vars

----------------------------------------------------------------------------
(* Claims *)

\* C1: in every reachable state no buffer the transfer loop holds has its
\* filled flag false, and work() is never about to write a sample into a
\* slot whose filled flag is true.
C1_NoSlotRace ==
  obj = "live" =>
    /\ \A k \in 1 .. Len(hw_inflight) :
         filled[buffer2index(hw_inflight[k], num_buffers)]
    /\ (pc_p = "copy" /\ Min(samples_left, num_samples) > 0)
         => ~filled[next_value.slot]

\* A buffer is held by the transfer loop while work() writes another slot.
C1_Witness ==
  /\ obj = "live"
  /\ hw_inflight # <<>>
  /\ pc_p = "copy" /\ Min(samples_left, num_samples) > 0
  /\ Len(fill_order) > num_buffers

\* C2: once the destructor was invoked while work() was inside
\* _buffer_emptied.wait(), work() wakes, reads running = false and returns.
C2_StopWakesProducer ==
  dtor_saw.work_waits ~> (pc_p = "idle" /\ ~p_running)

\* work() has returned after a destructor call that found it waiting.
C2_Witness ==
  /\ dtor_saw.work_waits
  /\ pc_p = "idle" /\ ~p_running
  /\ work_calls > 0

\* C3: when work() returns after it read running = false, it returns the
\* number of samples it wrote into the pool during the call.
C3_ReturnsConsumed ==
  (obj = "live" /\ work_calls > 0 /\ pc_p = "idle" /\ ~p_running)
    => work_ret = noutput_items - num_samples

\* C4: after write_task ended on its own and no destructor was invoked, a
\* call of work() in progress returns (unless the destructor is invoked).
C4_SelfEndReleasesProducer ==
  (pc_c = "done" /\ pc_d = "idle" /\ pc_p # "idle")
    ~> (pc_p = "idle" \/ pc_d # "idle")

\* C5: a call of work() that finds running = false returns 0 in its first
\* step and changes neither the filled flags, nor _buf_index, nor
\* _next_value, nor _samples_left.
C5_NotRunningAtEntry ==
  [][(work_calls' = work_calls + 1 /\ ~running)
       => /\ pc_p' = "idle"
          /\ work_ret' = 0
          /\ UNCHANGED <<filled, buf_index, next_value, samples_left>>]_vars

\* work() was entered with running = false and a positive count.
C5_Witness ==
  /\ obj = "live"
  /\ work_calls > 0 /\ pc_p = "idle" /\ ~p_running
  /\ noutput_items > 0 /\ num_samples = noutput_items
  /\ work_ret = 0

\* The first call of work(), with 4 buffers of samples for a pool of 4.
FeedFour ==
  /\ obj = "live"
  /\ num_buffers = 4
  /\ work_calls = 1
  /\ noutput_items = 4 * samples_per_buffer

IsPrefix(s, t) == Len(s) <= Len(t) /\ \A i \in 1 .. Len(s) : s[i] = t[i]

\* C6: with 4 slots, the first call work(4 * samples_per_buffer) marks the
\* slots filled in the order 0,1,2,3, and under fair scheduling of the
\* callback and of the buffers' return it returns the full count, as long
\* as running stays true.
C6_FeedFourReturns ==
  /\ [](FeedFour => IsPrefix(fill_order, <<0, 1, 2, 3>>))
  /\ (FeedFour /\ pc_p # "idle")
       ~> ((pc_p = "idle" /\ work_ret = noutput_items) \/ ~running)

\* The call returned the full count with the four slots filled in order.
C6_Witness ==
  /\ FeedFour
  /\ pc_p = "idle" /\ work_ret = 4 * samples_per_buffer
  /\ fill_order = <<0, 1, 2, 3>>
  /\ running

\* C7: when the destructor is invoked after write_task has returned, the
\* thread stays finished (the join returns), and the stream and _filled are
\* released once, by the destructor's last step and by nothing else.
C7_StopAfterSelfExit ==
  dtor_saw.thread_done =>
    /\ pc_c = "done"
    /\ stream_released = (IF pc_d = "done" THEN 1 ELSE 0)
    /\ filled_released = (IF pc_d = "done" THEN 1 ELSE 0)

\* The destructor ran to its end after the thread had ended on its own.
C7_Witness ==
  /\ dtor_saw.thread_done
  /\ pc_d = "done"
  /\ stream_released = 1 /\ filled_released = 1

C9_ConfigFallback ==
  obj = "live" =>
    LET b == IF req_buffers = Unset THEN 0 ELSE req_buffers
        s == (IF req_buflen = Unset THEN 0 ELSE req_buflen) \div 4
    IN /\ (b \in {0, 1} => num_buffers = 32)
       /\ (b >= 2 => num_buffers = b)
       /\ ((s < 1024 \/ s % 1024 # 0) => samples_per_buffer = 4096)
       /\ (~(s < 1024 \/ s % 1024 # 0) => samples_per_buffer = s)

\* Both fallbacks were taken: 1 buffer, and 1025 samples a buffer.
C9_Witness ==
  /\ obj = "live"
  /\ req_buffers = 1 /\ num_buffers = 32
  /\ req_buflen = 4100 /\ samples_per_buffer = 4096

\* C10: the pool size is even and at least 2, whatever "buffers" is.
C10_PoolEven ==
  obj = "live" => (num_buffers % 2 = 0 /\ num_buffers >= 2)

\* C10, amended: the pool size is at least 2, and it is odd only when the
\* request was that odd number.
C10_PoolAtLeastTwo ==
  obj = "live" =>
    /\ num_buffers >= 2
    /\ (num_buffers % 2 = 1 => req_buffers = num_buffers)

\* An odd request was kept.
C10_Witness ==
  /\ obj = "live"
  /\ req_buffers = 3 /\ num_buffers = 3

\* C11: when bladerf_init_stream fails, the constructor runs to its end
\* in a degraded state and reads no buffer pool that was never allocated.
C11_InitFailureHarmless ==
  init_ret # 0 => (obj = "degraded" /\ ~pool_fault)

\* C12: set_center_freq with a frequency outside the valid range calls
\* bladerf_set_frequency not at all, leaves the device's frequency as it
\* was, never ends with the failure of a frequency write, and what it
\* returns is the device's frequency (it throws only when reading that
\* frequency back from the device fails).
C12_OutOfRangeIgnored ==
  [][(freq_calls' = freq_calls + 1
        /\ (freq_arg' < 300 \/ freq_arg' > 3800))
       => /\ freq_writes' = freq_writes
          /\ dev_freq' = dev_freq
          /\ freq_out'.kind \in {"value", "get_failed"}
          /\ (freq_out'.kind = "value" => freq_out'.value = dev_freq)]_vars

\* A request above the range returned the frequency set by an earlier call.
C12_Witness ==
  /\ freq_calls = 2 /\ freq_writes = 1
  /\ freq_arg = 3801
  /\ dev_freq = 300
  /\ freq_out = [kind |-> "value", value |-> 300]

\* C13: every step in which work() starts to wait on _buffer_emptied is
\* taken with the running flag true.
C13_WaitsOnlyWhileRunning ==
  [][("work" \notin buffer_emptied /\ "work" \in buffer_emptied')
       => running]_vars

\* A step that takes _buf_status_lock: a critical section of work() or of
\* get_next_buffer().
LockStep == WorkFill \/ WorkWake \/ HwPrime \/ HwComplete \/ CallbackWake

\* C14: between the destructor's write of running = false and its
\* broadcasts no step of work() or of get_next_buffer() holds the lock.
C14_FlagAndBroadcastTogether ==
  [][(pc_d = "notify") => ~LockStep]_vars

\* C14, amended: the flag is written first, outside the lock, and stays
\* false; the two broadcasts are one critical section, which leaves no
\* thread waiting on either condition.
C14_BroadcastsTogetherAfterFlag ==
  /\ [](pc_d # "idle" => ~running)
  /\ [][(pc_d = "notify" /\ pc_d' = "join")
          => (samp_avail' = {} /\ buffer_emptied' = {})]_vars

\* The broadcast has taken a waiting work() out of _buffer_emptied, after a
\* critical section of work() ran between the flag write and the broadcast.
C14_Witness ==
  /\ pc_d = "join"
  /\ pc_p = "wait" /\ "work" \notin buffer_emptied
  /\ ~dtor_saw.work_waits
  /\ p_running

\* C15: the stream and _filled are released, and the destructor is past
\* its join, only when the streaming thread has ended.
C15_ReleaseAfterJoin ==
  (stream_released > 0 \/ filled_released > 0
     \/ pc_d \in {"release", "done"})
    => pc_c = "done"

\* The destructor found the thread alive and has released everything.
C15_Witness ==
  /\ pc_d = "done"
  /\ ~dtor_saw.thread_done
  /\ stream_released = 1 /\ filled_released = 1
  /\ Len(tx_order) > 0

\* C16: slots are filled in cyclic order, handed to the transfer loop in
\* the order they were filled, a slot's k-th hand-over coming after its
\* k-th fill, and the slots filled are never more than a lap ahead of the
\* slots handed over.
C16_AtMostOneLap ==
  obj = "live" =>
    /\ \A k \in 1 .. Len(fill_order) : fill_order[k] = (k - 1) % num_buffers
    /\ IsPrefix(tx_order, fill_order)
    /\ Len(fill_order) - Len(tx_order) <= num_buffers

\* In the second lap work() is a full lap less one slot ahead.
C16_Witness ==
  /\ obj = "live"
  /\ Len(tx_order) > num_buffers
  /\ Len(fill_order) - Len(tx_order) = num_buffers - 1

\* C17: while work() is blocked on _buffer_emptied every slot is marked
\* filled; while the callback is blocked on _samp_avail every slot filled
\* so far has been handed over; with running true the two are not blocked
\* together.
C17_BlockedFullOrEmpty ==
  obj = "live" =>
    /\ "work" \in buffer_emptied
         => \A i \in 0 .. num_buffers - 1 : filled[i]
    /\ "cb" \in samp_avail => Len(fill_order) = Len(tx_order)
    /\ running => ~("work" \in buffer_emptied /\ "cb" \in samp_avail)

\* work() is blocked in its second lap, the pool full.
C17_Witness ==
  /\ obj = "live" /\ running
  /\ "work" \in buffer_emptied
  /\ Len(fill_order) > num_buffers

\* C18: work() sets a flag that is false, and get_next_buffer() clears the
\* flag of a returned buffer that is true.
C18_FlagsAlternate ==
  [][/\ Len(fill_order') > Len(fill_order)
          => (~filled[buf_index] /\ filled'[buf_index])
     /\ HwComplete
          => filled[buffer2index(Head(hw_inflight), num_buffers)]]_vars

\* Slot 0 was set, cleared and set again.
C18_Witness ==
  /\ obj = "live"
  /\ Len(fill_order) > num_buffers
  /\ filled[0]

\* A call of get_next_buffer() returns.
CallbackReturns ==
  (HwPrime \/ HwComplete \/ CallbackWake) /\ pc_c' # "cb_wait"

\* What a returning call of get_next_buffer() does, by the value of running
\* it reads: hand over the buffer at _next_to_tx and advance, or NULL.
NextBufferResult ==
  IF running
  THEN /\ pc_c' = "stream"
       /\ tx_order' = Append(tx_order, next_to_tx)
       /\ hw_inflight'[Len(hw_inflight')] = BufferAt(next_to_tx)
       /\ next_to_tx' = (next_to_tx + 1) % num_buffers
  ELSE /\ pc_c' = "exit" /\ status' = 0
       /\ UNCHANGED <<next_to_tx, tx_order>>

\* Nothing is handed over.
NoHandOver == UNCHANGED <<next_to_tx, tx_order>>

\* C19: get_next_buffer() returns the buffer at _next_to_tx and advances
\* _next_to_tx by one modulo the pool size exactly when it reads running =
\* true after its wait; when it reads false it returns NULL and leaves
\* _next_to_tx alone; after a NULL the flag stays false and no buffer is
\* handed over any more.
C19_NextBufferResult ==
  /\ [][CallbackReturns => NextBufferResult]_vars
  /\ [][(pc_c \in {"exit", "done"}) => NoHandOver]_vars
  /\ []((pc_c \in {"exit", "done"} /\ status = 0) => ~running)

\* NULL was returned after buffers of more than one lap.
C19_Witness ==
  /\ pc_c = "exit" /\ status = 0
  /\ Len(tx_order) > num_buffers

\* C20: the running flag goes from false to true in the constructor only.
C20_RunningMonotonic ==
  [][(~running /\ running') => (obj = "new" /\ obj' = "live")]_vars

\* Both write_task and the destructor have set the flag to false.
C20_Witness ==
  /\ obj = "live" /\ ~running
  /\ pc_c = "done" /\ status = StreamError
  /\ pc_d = "done"

\* C21: the buffers handed to the transfer loop hold, in hand-over order,
\* the input samples in the order work() was given them, one full buffer
\* after the other with none left out and none twice, and a buffer the
\* transfer loop holds still holds what it held when it was handed over.
C21_DataInOrder ==
  /\ \A k \in 1 .. Len(tx_data) :
       tx_data[k] = [first |-> (k - 1) * samples_per_buffer,
                     len |-> samples_per_buffer]
  /\ \A j \in 1 .. Len(hw_inflight) :
       buffers[buffer2index(hw_inflight[j], num_buffers)]
         = tx_data[Len(tx_data) - Len(hw_inflight) + j]

\* A buffer of the second lap has been handed over, from input given in
\* two calls of work().
C21_Witness ==
  /\ running
  /\ work_calls = 2
  /\ Len(tx_data) > num_buffers
  /\ hw_inflight # <<>>

====
